---- MODULE Spec2Model ----
(***************************************************************************)
(* Model of plugins/autopeering/autopeering.go (hornet).                   *)
(*                                                                         *)
(* Strings are sequences of one-character strings, so that the string      *)
(* functions the code calls (net.SplitHostPort, strings.Split, base64      *)
(* decoding, port formatting) are computed, not assumed.                   *)
(***************************************************************************)
EXTENDS Integers, Sequences, FiniteSets, TLC

VARIABLES
    \* ---- package-level state (autopeering.go:25-37) and start()'s frame
    pc,              \* position of the goroutine running start()
    Discovery,       \* *discover.Protocol, Nil until configureAP
    Selection,       \* *selection.Protocol, Nil until configureAP
    ID,              \* the node's autopeering ID, NoID until recorded
    conn,            \* the UDP socket of start(): "none", "open", "closed"
    trans,           \* the transport wrapping conn
    srv,             \* the server returned by server.Serve
    handlers,        \* the handlers handed to server.Serve
    deferred,        \* start()'s stack of deferred calls
    panicking,       \* the panic unwinding start(), NoPanic if none
    calls,           \* history: the library calls made so far, in order
    closeFailed,     \* history: the Close calls that failed
    failure,         \* history: the startup step that failed, "none" if none
    shutdownSignal,  \* TRUE once the shutdown channel is readable (closed)
    signalledAt,     \* history: where start() was when the signal came
    gossipEnabled,   \* environment: whether the gossip plugin is enabled
    localPeering,    \* the local peer's "peering" service address
    \* ---- isValidNeighbor
    candidate,       \* the peer handed to isValidNeighbor
    valid,           \* its outcome, NotCalled before the call
    \* ---- parseEntryNodes
    entryNodes,      \* the configured entry node definitions
    preferIPv6,      \* configuration network.prefer_ipv6
    idx,             \* range position of the loop
    result,          \* the named result `result`
    err,             \* the named result `err`
    parsePc          \* "loop", "done" (or "idle" outside the parser)

vars == <<pc, Discovery, Selection, ID, conn, trans, srv, handlers, deferred,
          panicking, calls, closeFailed, failure, shutdownSignal, signalledAt,
          gossipEnabled, localPeering, candidate, valid, entryNodes, preferIPv6, idx,
          result, err, parsePc>>

supervisorVars == <<pc, Discovery, Selection, ID, conn, trans, srv, handlers,
                    deferred, panicking, calls, closeFailed, failure,
                    shutdownSignal, signalledAt, gossipEnabled, localPeering>>
validatorVars == <<candidate, valid>>
parserVars == <<entryNodes, preferIPv6, idx, result, err, parsePc>>

\* ---------------------------------------------------------------- bounds
MaxHostLen == 2
MaxRawLen == 3
MaxEntryNodes == 3

\* --------------------------------------------------------------- strings
\* A service that is not registered: Get returns a nil net.Addr.
Absent == [registered |-> FALSE, addr |-> <<>>]
Registered(a) == [registered |-> TRUE, addr |-> a]

\* All sequences over alphabet A of length at most n.
StringsUpTo(A, n) == UNION {[1..k -> A] : k \in 0..n}

\* strings.IndexByte: 0-based index of the first c in s, -1 if none.
IndexByte(s, c) ==
    IF \E i \in 1..Len(s) : s[i] = c
    THEN (CHOOSE i \in 1..Len(s) : s[i] = c /\ \A j \in 1..(i-1) : s[j] # c) - 1
    ELSE -1

\* strings.LastIndexByte: 0-based index of the last c in s, -1 if none.
LastIndexByte(s, c) ==
    IF \E i \in 1..Len(s) : s[i] = c
    THEN (CHOOSE i \in 1..Len(s) : s[i] = c /\ \A j \in (i+1)..Len(s) : s[j] # c) - 1
    ELSE -1

\* Go's s[from:to] with 0-based bounds.
Slice(s, from, to) == SubSeq(s, from + 1, to)

\* net.SplitHostPort, branch by branch.
SplitHostPort(hostport) ==
    LET i == LastIndexByte(hostport, ":")
        bad == [ok |-> FALSE, host |-> <<>>, port |-> <<>>]
        tail(j, k, host) ==
            IF IndexByte(Slice(hostport, j, Len(hostport)), "[") >= 0 THEN bad
            ELSE IF IndexByte(Slice(hostport, k, Len(hostport)), "]") >= 0 THEN bad
            ELSE [ok |-> TRUE, host |-> host,
                  port |-> Slice(hostport, i + 1, Len(hostport))]
    IN  IF i < 0 THEN bad                                   \* missing port
        ELSE IF hostport[1] = "["
        THEN LET end == IndexByte(hostport, "]")
             IN  IF end < 0 THEN bad                        \* missing ']'
                 ELSE IF end + 1 = Len(hostport) THEN bad   \* missing port
                 ELSE IF end + 1 = i
                      THEN tail(1, end + 1, Slice(hostport, 1, end))
                      ELSE bad           \* too many colons / missing port
        ELSE LET host == Slice(hostport, 0, i)
             IN  IF IndexByte(host, ":") >= 0 THEN bad      \* too many colons
                 ELSE tail(0, 0, host)

\* net.JoinHostPort: a host holding a colon is bracketed.
JoinHostPort(host, port) ==
    IF IndexByte(host, ":") >= 0
    THEN <<"[">> \o host \o <<"]", ":">> \o port
    ELSE host \o <<":">> \o port

\* ------------------------------------------------------- isValidNeighbor
\* A call's outcome: the value returned, or a panic.
Return(b) == [called |-> TRUE, panic |-> FALSE, value |-> b]
PanicOutcome == [called |-> TRUE, panic |-> TRUE, value |-> FALSE]
NotCalled == [called |-> FALSE, panic |-> FALSE, value |-> FALSE]

\* Services().Get(key): the registered address, or a nil net.Addr.
ServiceGet(p, key) == p.services[key]

\* Mutant: the whole addresses are compared, ports included.
isValidNeighborWholeAddr(p) ==
    LET gossipAddr == ServiceGet(p, "gossip")
        peeringAddr == ServiceGet(p, "peering")
    IN  IF ~gossipAddr.registered THEN Return(FALSE)
        ELSE IF ~SplitHostPort(gossipAddr.addr).ok THEN Return(FALSE)
        ELSE IF ~peeringAddr.registered THEN PanicOutcome
        ELSE IF ~SplitHostPort(peeringAddr.addr).ok THEN Return(FALSE)
        ELSE Return(gossipAddr.addr = peeringAddr.addr)

\* Mutant: the nil check of the gossip address is missing, so String() is
\* called on a nil net.Addr.
isValidNeighborNoGossipCheck(p) ==
    LET gossipAddr == ServiceGet(p, "gossip")
        peeringAddr == ServiceGet(p, "peering")
    IN  IF ~gossipAddr.registered THEN PanicOutcome
        ELSE IF ~SplitHostPort(gossipAddr.addr).ok THEN Return(FALSE)
        ELSE IF ~peeringAddr.registered THEN PanicOutcome
        ELSE IF ~SplitHostPort(peeringAddr.addr).ok THEN Return(FALSE)
        ELSE Return(SplitHostPort(gossipAddr.addr).host
                    = SplitHostPort(peeringAddr.addr).host)

\* autopeering.go:53-70.  Calling String() on the nil net.Addr that Get
\* returns for an unregistered "peering" service is a nil dereference.
isValidNeighbor(p) ==
    LET gossipAddr == ServiceGet(p, "gossip")
        peeringAddr == ServiceGet(p, "peering")
    IN  IF ~gossipAddr.registered THEN Return(FALSE)
        ELSE IF ~SplitHostPort(gossipAddr.addr).ok THEN Return(FALSE)
        ELSE IF ~peeringAddr.registered THEN PanicOutcome
        ELSE IF ~SplitHostPort(peeringAddr.addr).ok THEN Return(FALSE)
        ELSE Return(SplitHostPort(gossipAddr.addr).host
                    = SplitHostPort(peeringAddr.addr).host)

\* ------------------------------------------------------- parseEntryNodes
NoErr == [is |-> "nil", text |-> "", arg |-> <<>>]
ErrParsingEntryNode == "can't parse entry node"

\* strings.Split(s, sep) for a one-byte separator.
RECURSIVE Split(_, _)
Split(s, sep) ==
    LET i == IndexByte(s, sep)
    IN  IF i < 0 THEN <<s>>
        ELSE <<Slice(s, 0, i)>> \o Split(Slice(s, i + 1, Len(s)), sep)

\* The alphabet of base64.StdEncoding; a character's value is its index - 1.
B64Chars ==
    <<"A","B","C","D","E","F","G","H","I","J","K","L","M","N","O","P",
      "Q","R","S","T","U","V","W","X","Y","Z","a","b","c","d","e","f",
      "g","h","i","j","k","l","m","n","o","p","q","r","s","t","u","v",
      "w","x","y","z","0","1","2","3","4","5","6","7","8","9","+","/">>
IsB64(c) == \E i \in 1..Len(B64Chars) : B64Chars[i] = c
B64Val(c) == (CHOOSE i \in 1..Len(B64Chars) : B64Chars[i] = c) - 1

\* One quantum of four characters; `last` says it ends the input, where
\* alone "xx==" and "xxx=" are accepted.
DecodeQuantum(q, last) ==
    LET bad == [ok |-> FALSE, bytes |-> <<>>]
        v(k) == B64Val(q[k])
        b1 == v(1) * 4 + (v(2) \div 16)
        b2 == (v(2) % 16) * 16 + (v(3) \div 4)
        b3 == (v(3) % 4) * 64 + v(4)
    IN  IF ~IsB64(q[1]) \/ ~IsB64(q[2]) THEN bad
        ELSE IF q[3] = "="
             THEN IF last /\ q[4] = "=" THEN [ok |-> TRUE, bytes |-> <<b1>>] ELSE bad
        ELSE IF ~IsB64(q[3]) THEN bad
        ELSE IF q[4] = "="
             THEN IF last THEN [ok |-> TRUE, bytes |-> <<b1, b2>>] ELSE bad
        ELSE IF ~IsB64(q[4]) THEN bad
        ELSE [ok |-> TRUE, bytes |-> <<b1, b2, b3>>]

\* base64.StdEncoding.DecodeString (padded, so the length is a multiple of 4).
RECURSIVE DecodeString(_)
DecodeString(s) ==
    IF s = <<>> THEN [ok |-> TRUE, bytes |-> <<>>]
    ELSE IF Len(s) < 4 THEN [ok |-> FALSE, bytes |-> <<>>]
    ELSE LET q == DecodeQuantum(SubSeq(s, 1, 4), Len(s) = 4)
             rest == DecodeString(SubSeq(s, 5, Len(s)))
         IN  IF q.ok /\ rest.ok
             THEN [ok |-> TRUE, bytes |-> q.bytes \o rest.bytes]
             ELSE [ok |-> FALSE, bytes |-> <<>>]

Digits == <<"0","1","2","3","4","5","6","7","8","9">>
IsDigit(c) == \E i \in 1..Len(Digits) : Digits[i] = c
DigitVal(c) == (CHOOSE i \in 1..Len(Digits) : Digits[i] = c) - 1

\* strconv.Atoi on an unsigned decimal numeral.
RECURSIVE Atoi(_)
Atoi(s) == IF s = <<>> THEN 0
           ELSE Atoi(SubSeq(s, 1, Len(s) - 1)) * 10 + DigitVal(s[Len(s)])

\* fmt's %d of a non-negative integer.
RECURSIVE Itoa(_)
Itoa(n) == IF n < 10 THEN <<Digits[n + 1]>>
           ELSE Itoa(n \div 10) \o <<Digits[(n % 10) + 1]>>

\* iputils.ParseOriginAddress: host and port around the last colon; the
\* port is a decimal numeral that fits 16 bits.
ParseOriginAddress(s) ==
    LET i == LastIndexByte(s, ":")
        portStr == Slice(s, i + 1, Len(s))
        bad(why) == [ok |-> FALSE, why |-> why, Addr |-> <<>>, Port |-> 0]
    IN  IF i < 0 THEN bad("invalid address chunks")
        ELSE IF portStr = <<>> \/ \E k \in 1..Len(portStr) : ~IsDigit(portStr[k])
             THEN bad("invalid port")
        ELSE IF Atoi(portStr) > 65535 THEN bad("invalid port")
        ELSE [ok |-> TRUE, why |-> "", Addr |-> Slice(s, 0, i),
              Port |-> Atoi(portStr)]

\* The resolver the node runs against: the addresses of each known host.
IPv4(t) == [v6 |-> FALSE, text |-> t]
IPv6(t) == [v6 |-> TRUE, text |-> t]
LookupHost(host) ==
    IF host = <<"h">> THEN <<IPv4(<<"1", ".", "2">>), IPv6(<<":", ":", "1">>)>>
    ELSE IF host = <<"g">> THEN <<IPv4(<<"3", ".", "4">>)>>
    ELSE <<>>

\* iputils.GetIPAddressesFromHost: fails when the host has no address.
GetIPAddressesFromHost(host) ==
    [ok |-> LookupHost(host) # <<>>, ips |-> LookupHost(host)]

\* IPAddresses.GetPreferredAddress: the first address of the preferred
\* family if there is one, else the first of the other family.
GetPreferredAddress(ips, preferV6) ==
    LET want == {k \in 1..Len(ips) : ips[k].v6 = preferV6}
        first(S) == CHOOSE k \in S : \A j \in S : k <= j
    IN  IF want # {} THEN ips[first(want)] ELSE ips[first(1..Len(ips))]

\* IP.ToString: an IPv6 address is bracketed.
IPToString(ip) == IF ip.v6 THEN <<"[">> \o ip.text \o <<"]">> ELSE ip.text

NoServices == [gossip |-> Absent, peering |-> Absent]
\* peer.NewPeer(pubKey, services)
NewPeer(pubKey, services) == [publicKey |-> pubKey, services |-> services]
NoPeer == NewPeer(<<>>, NoServices)

\* The error of base64 decoding (base64.CorruptInputError).
CorruptInputError == "illegal base64 data"

\* Mutant: the decode error is the error wrapped with %w.
ParseEntryWrapsDecodeError(entryNodeDefinition, preferV6) ==
    LET parts == Split(entryNodeDefinition, "@")
        pubKey == DecodeString(parts[1])
        entryAddr == ParseOriginAddress(parts[2])
        ipAddresses == GetIPAddressesFromHost(entryAddr.Addr)
        ip == IPToString(GetPreferredAddress(ipAddresses.ips, preferV6))
        fail(is, text, arg) ==
            [err |-> [is |-> is, text |-> text, arg |-> arg], peer |-> NoPeer]
    IN  IF Len(parts) # 2
        THEN fail(ErrParsingEntryNode, "entry node parts must be 2, is", Itoa(Len(parts)))
        ELSE IF ~pubKey.ok
        THEN fail(CorruptInputError, "can't decode public key", parts[1])
        ELSE IF ~entryAddr.ok
        THEN fail(entryAddr.why, "invalid entry node address", parts[2])
        ELSE IF ~ipAddresses.ok
        THEN fail("no such host", "while handling", parts[2])
        ELSE [err |-> NoErr,
              peer |-> NewPeer(pubKey.bytes,
                         [NoServices EXCEPT !.peering =
                            Registered(ip \o <<":">> \o Itoa(entryAddr.Port))])]

\* Mutant: the public key is decoded before the parts are counted.
ParseEntryDecodeFirst(entryNodeDefinition, preferV6) ==
    LET parts == Split(entryNodeDefinition, "@")
        pubKey == DecodeString(parts[1])
        entryAddr == ParseOriginAddress(parts[2])
        ipAddresses == GetIPAddressesFromHost(entryAddr.Addr)
        ip == IPToString(GetPreferredAddress(ipAddresses.ips, preferV6))
        fail(is, text, arg) ==
            [err |-> [is |-> is, text |-> text, arg |-> arg], peer |-> NoPeer]
    IN  IF ~pubKey.ok
        THEN fail(ErrParsingEntryNode, "can't decode public key", parts[1])
        ELSE IF Len(parts) # 2
        THEN fail(ErrParsingEntryNode, "entry node parts must be 2, is", Itoa(Len(parts)))
        ELSE IF ~entryAddr.ok
        THEN fail(entryAddr.why, "invalid entry node address", parts[2])
        ELSE IF ~ipAddresses.ok
        THEN fail("no such host", "while handling", parts[2])
        ELSE [err |-> NoErr,
              peer |-> NewPeer(pubKey.bytes,
                         [NoServices EXCEPT !.peering =
                            Registered(ip \o <<":">> \o Itoa(entryAddr.Port))])]

\* The body of the loop for one non-empty definition (autopeering.go:138-160):
\* the error it returns, or the peer it appends.
ParseEntry(entryNodeDefinition, preferV6) ==
    LET parts == Split(entryNodeDefinition, "@")
        pubKey == DecodeString(parts[1])
        entryAddr == ParseOriginAddress(parts[2])
        ipAddresses == GetIPAddressesFromHost(entryAddr.Addr)
        ip == IPToString(GetPreferredAddress(ipAddresses.ips, preferV6))
        fail(is, text, arg) ==
            [err |-> [is |-> is, text |-> text, arg |-> arg], peer |-> NoPeer]
    IN  IF Len(parts) # 2
        THEN fail(ErrParsingEntryNode, "entry node parts must be 2, is", Itoa(Len(parts)))
        ELSE IF ~pubKey.ok
        THEN fail(ErrParsingEntryNode, "can't decode public key", parts[1])
        ELSE IF ~entryAddr.ok
        THEN fail(entryAddr.why, "invalid entry node address", parts[2])
        ELSE IF ~ipAddresses.ok
        THEN fail("no such host", "while handling", parts[2])
        ELSE [err |-> NoErr,
              peer |-> NewPeer(pubKey.bytes,
                         [NoServices EXCEPT !.peering =
                            Registered(ip \o <<":">> \o Itoa(entryAddr.Port))])]

\* Mutant: on an error the peers parsed so far are returned with it.
LoopBodyPartial(defs, i, res, preferV6) ==
    IF defs[i] = <<>>
    THEN [result |-> res, err |-> NoErr, returned |-> FALSE]
    ELSE LET e == ParseEntry(defs[i], preferV6)
         IN  IF e.err # NoErr
             THEN [result |-> res, err |-> e.err, returned |-> TRUE]
             ELSE [result |-> Append(res, e.peer), err |-> NoErr, returned |-> FALSE]

\* Mutant: an empty definition is parsed like any other.
LoopBodyNoSkip(defs, i, res, preferV6) ==
    LET e == ParseEntry(defs[i], preferV6)
    IN  IF e.err # NoErr
        THEN [result |-> <<>>, err |-> e.err, returned |-> TRUE]
        ELSE [result |-> Append(res, e.peer), err |-> NoErr, returned |-> FALSE]

\* Mutant: a parsed peer is put in front of the peers parsed before it.
LoopBodyPrepend(defs, i, res, preferV6) ==
    IF defs[i] = <<>>
    THEN [result |-> res, err |-> NoErr, returned |-> FALSE]
    ELSE LET e == ParseEntry(defs[i], preferV6)
         IN  IF e.err # NoErr
             THEN [result |-> <<>>, err |-> e.err, returned |-> TRUE]
             ELSE [result |-> <<e.peer>> \o res, err |-> NoErr, returned |-> FALSE]

\* One iteration of the range loop (autopeering.go:133-161) on the
\* definition at position i: what result and err become and whether the
\* function returns.
LoopBody(defs, i, res, preferV6) ==
    IF defs[i] = <<>>
    THEN [result |-> res, err |-> NoErr, returned |-> FALSE]
    ELSE LET e == ParseEntry(defs[i], preferV6)
         IN  IF e.err # NoErr
             THEN [result |-> <<>>, err |-> e.err, returned |-> TRUE]
             ELSE [result |-> Append(res, e.peer), err |-> NoErr, returned |-> FALSE]

\* parseEntryNodes() run to its return, from position i with `res` so far.
RECURSIVE ParseFrom(_, _, _, _)
ParseFrom(defs, i, res, preferV6) ==
    IF i > Len(defs) THEN [result |-> res, err |-> NoErr]
    ELSE LET b == LoopBody(defs, i, res, preferV6)
         IN  IF b.returned THEN [result |-> b.result, err |-> b.err]
             ELSE ParseFrom(defs, i + 1, b.result, preferV6)

parseEntryNodes(defs, preferV6) == ParseFrom(defs, 1, <<>>, preferV6)

\* ------------------------------------------------ inputs of the checks
HostChars == {"a", ":"}
RawChars == {"a", ":", "[", "]"}
Ports == {<<"1">>, <<"2">>}
Hosts == StringsUpTo(HostChars, MaxHostLen)
\* The endpoints a candidate may advertise: joined host:port pairs and
\* arbitrary short strings.
Endpoints ==
    {JoinHostPort(h, p) : h \in Hosts, p \in Ports} \cup StringsUpTo(RawChars, MaxRawLen)
Candidates ==
    {NewPeer(<<>>, [gossip |-> g, peering |-> q]) :
        g \in {Absent} \cup {Registered(e) : e \in Endpoints},
        q \in {Absent} \cup {Registered(e) : e \in Endpoints}}

\* Entry node definitions: empty, well formed, and one of each failure.
DefEmpty == <<>>
DefGoodH == <<"Q","Q","=","=","@","h",":","1","5">>
DefGoodG == <<"Q","U","I","=","@","g",":","0","2">>
DefNoAt == <<"Q","Q","=","=">>
DefTwoAt == <<"Q","@","h","@","1">>
DefBadKey == <<"Q","!","=","=","@","h",":","1">>
DefBadAddr == <<"Q","Q","=","=","@","h">>
DefNoHost == <<"Q","Q","=","=","@","x",":","1">>
Definitions ==
    {DefEmpty, DefGoodH, DefGoodG, DefNoAt, DefTwoAt, DefBadKey, DefBadAddr, DefNoHost}
EntryNodeLists == StringsUpTo(Definitions, MaxEntryNodes)

\* ---------------------------------------------------------- idle parts
SupervisorIdle ==
    /\ pc = "Idle"
    /\ Discovery = [state |-> "nil", masterPeers |-> <<>>]
    /\ Selection = [state |-> "nil"]
    /\ ID = <<>>
    /\ conn = "none" /\ trans = "none" /\ srv = "none"
    /\ handlers = <<>>
    /\ deferred = <<>>
    /\ panicking = "none"
    /\ calls = <<>>
    /\ closeFailed = {}
    /\ failure = "none"
    /\ shutdownSignal = FALSE
    /\ signalledAt = "never"
    /\ gossipEnabled = FALSE
    /\ localPeering = <<>>
ValidatorIdle == candidate = NoPeer /\ valid = NotCalled
ParserIdle ==
    /\ entryNodes = <<>> /\ preferIPv6 = FALSE /\ idx = 0
    /\ result = <<>> /\ err = NoErr /\ parsePc = "idle"

\* ------------------------------------------- specification: the validator
InitValidator ==
    /\ SupervisorIdle /\ ParserIdle
    /\ candidate \in Candidates
    /\ valid = NotCalled

\* The selection protocol calls the validator hook on the candidate.
CallIsValid ==
    /\ ~valid.called
    /\ valid' = isValidNeighbor(candidate)
    /\ UNCHANGED <<candidate, supervisorVars, parserVars>>

NextValidator == CallIsValid
SpecValidator == InitValidator /\ [][NextValidator]_vars

\* ---------------------------------------------- specification: the parser
InitParser ==
    /\ SupervisorIdle /\ ValidatorIdle
    /\ entryNodes \in EntryNodeLists
    /\ preferIPv6 \in BOOLEAN
    /\ idx = 1 /\ result = <<>> /\ err = NoErr /\ parsePc = "loop"

\* One iteration of `for _, entryNodeDefinition := range ...`.
Iterate ==
    /\ parsePc = "loop" /\ idx <= Len(entryNodes)
    /\ LET b == LoopBody(entryNodes, idx, result, preferIPv6)
       IN  /\ result' = b.result
           /\ err' = b.err
           /\ parsePc' = IF b.returned THEN "done" ELSE "loop"
           /\ idx' = IF b.returned THEN idx ELSE idx + 1
    /\ UNCHANGED <<entryNodes, preferIPv6, supervisorVars, validatorVars>>

\* The range is exhausted: return result, nil.
ReturnResult ==
    /\ parsePc = "loop" /\ idx > Len(entryNodes)
    /\ parsePc' = "done"
    /\ UNCHANGED <<entryNodes, preferIPv6, idx, result, err, supervisorVars,
                   validatorVars>>

NextParser == Iterate \/ ReturnResult
SpecParser == InitParser /\ [][NextParser]_vars

\* ------------------------------------------ specification: the supervisor
\* lPeer.ID().String() of the local identity.
LocalID == <<"i", "d">>
\* The local "peering" service address: well formed, or without a port.
LocalPeeringAddrs == {<<"a", ":", "1">>, <<"a">>}
\* The entry node configurations the supervisor is run with.
SampleConfigs ==
    {<<>>, <<DefGoodH>>, <<DefGoodH, DefBadKey>>, <<DefEmpty, DefGoodG>>}
\* What a Close call may do: succeed, report an error, or panic.
CloseOutcomes == {"ok", "error", "panic"}

Init ==
    /\ pc = "Idle"
    /\ Discovery = [state |-> "nil", masterPeers |-> <<>>]
    /\ Selection = [state |-> "nil"]
    /\ ID = <<>>
    /\ conn = "none" /\ trans = "none" /\ srv = "none"
    /\ handlers = <<>>
    /\ deferred = <<>>
    /\ panicking = "none"
    /\ calls = <<>>
    /\ closeFailed = {}
    /\ failure = "none"
    /\ shutdownSignal = FALSE
    /\ signalledAt = "never"
    /\ gossipEnabled \in BOOLEAN
    /\ localPeering \in LocalPeeringAddrs
    /\ ValidatorIdle
    /\ entryNodes \in SampleConfigs
    /\ preferIPv6 \in BOOLEAN
    /\ idx = 0 /\ result = <<>> /\ err = NoErr /\ parsePc = "idle"

\* Mutant: an entry node error ends configureAP before the protocols are
\* constructed.
configureAPAbortOnError ==
    /\ pc = "Idle" /\ Discovery.state = "nil" /\ parsePc = "idle"
    /\ LET r == parseEntryNodes(entryNodes, preferIPv6)
       IN  /\ result' = r.result
           /\ err' = r.err
           /\ parsePc' = "done"
           /\ calls' = calls
                       \o (IF r.err # NoErr THEN <<"log.Errorf">>
                           ELSE <<"discover.New", "selection.New">>)
           /\ Discovery' = IF r.err # NoErr THEN Discovery
                           ELSE [state |-> "new", masterPeers |-> r.result]
           /\ Selection' = IF r.err # NoErr THEN Selection ELSE [state |-> "new"]
    /\ UNCHANGED <<failure, pc, ID, conn, trans, srv, handlers, deferred,
                   panicking, closeFailed, shutdownSignal, signalledAt, gossipEnabled,
                   localPeering, entryNodes, preferIPv6, idx, validatorVars>>

\* configureAP (autopeering.go:39-50).  Selection is constructed whatever
\* gossipEnabled is: the function does not read it.
configureAP ==
    /\ pc = "Idle" /\ Discovery.state = "nil"
    /\ LET r == parseEntryNodes(entryNodes, preferIPv6)
       IN  /\ result' = r.result
           /\ err' = r.err
           /\ parsePc' = "done"
           /\ calls' = calls
                       \o (IF r.err # NoErr THEN <<"log.Errorf">> ELSE <<>>)
                       \o <<"discover.New", "selection.New">>
           /\ Discovery' = [state |-> "new", masterPeers |-> r.result]
    /\ Selection' = [state |-> "new"]
    /\ UNCHANGED <<failure, pc, ID, conn, trans, srv, handlers, deferred, panicking,
                   closeFailed, shutdownSignal, signalledAt, gossipEnabled, localPeering,
                   entryNodes, preferIPv6, idx, validatorVars>>

\* Mutant: the ID is recorded when start() begins.
StartCallRecordsID ==
    /\ pc = "Idle" /\ Discovery.state # "nil"
    /\ pc' = "Resolving"
    /\ deferred' = <<"log.Info">>
    /\ ID' = <<"i", "d">>
    /\ UNCHANGED <<failure, Discovery, Selection, conn, trans, srv, handlers,
                   panicking, calls, closeFailed, shutdownSignal, signalledAt,
                   gossipEnabled, localPeering, validatorVars, parserVars>>

\* The daemon calls start() once, after the plugin was configured
\* (autopeering.go:72-73).
StartCall ==
    /\ pc = "Idle" /\ Discovery.state # "nil"
    /\ pc' = "Resolving"
    /\ deferred' = <<"log.Info">>
    /\ UNCHANGED <<failure, Discovery, Selection, ID, conn, trans, srv, handlers,
                   panicking, calls, closeFailed, shutdownSignal, signalledAt,
                   gossipEnabled, localPeering, validatorVars, parserVars>>

\* autopeering.go:75-87: the port of the peering service, then the bind
\* address.  A malformed peering address panics; a resolve error is fatal.
Resolve ==
    /\ pc = "Resolving"
    /\ IF ~SplitHostPort(localPeering).ok
       THEN /\ panicking' = "net.SplitHostPort"
            /\ pc' = "Unwinding"
            /\ calls' = calls
            /\ failure' = "peering address"
       ELSE \E ok \in BOOLEAN :
            /\ calls' = calls \o <<"net.ResolveUDPAddr">>
                        \o (IF ok THEN <<>> ELSE <<"log.Fatalf">>)
            /\ pc' = IF ok THEN "SelfTesting" ELSE "Exited"
            /\ failure' = IF ok THEN failure ELSE "resolve"
            /\ panicking' = panicking
    /\ UNCHANGED <<Discovery, Selection, ID, conn, trans, srv, handlers,
                   deferred, closeFailed, shutdownSignal, signalledAt, gossipEnabled,
                   localPeering, validatorVars, parserVars>>

\* autopeering.go:89-92 and checkConnection (166-180): both failures panic.
SelfTest ==
    /\ pc = "SelfTesting"
    /\ \E outcome \in {"ok", "resolve error", "check error"} :
        /\ calls' = calls
                    \o (IF outcome = "resolve error" THEN <<>>
                        ELSE <<"netutil.CheckUDP">>)
                    \o (IF outcome = "check error" THEN <<"log.Panicf">> ELSE <<>>)
        /\ pc' = IF outcome = "ok" THEN "Listening" ELSE "Unwinding"
        /\ panicking' = IF outcome = "ok" THEN panicking ELSE "checkConnection"
        /\ failure' = IF outcome = "ok" THEN failure ELSE "self-test"
    /\ UNCHANGED <<Discovery, Selection, ID, conn, trans, srv, handlers,
                   deferred, closeFailed, shutdownSignal, signalledAt, gossipEnabled,
                   localPeering, validatorVars, parserVars>>

\* Mutant: start() looks at the shutdown channel before it listens and
\* returns when the signal is there.
ListenCancellable ==
    /\ pc = "Listening"
    /\ IF shutdownSignal
       THEN /\ pc' = "ShuttingDown"
            /\ UNCHANGED <<calls, conn, deferred, failure>>
       ELSE \E ok \in BOOLEAN :
            /\ calls' = calls \o <<"net.ListenUDP">>
                        \o (IF ok THEN <<>> ELSE <<"log.Fatalf">>)
            /\ conn' = IF ok THEN "open" ELSE conn
            /\ deferred' = IF ok THEN Append(deferred, "conn.Close") ELSE deferred
            /\ pc' = IF ok THEN "Wrapping" ELSE "Exited"
            /\ failure' = IF ok THEN failure ELSE "listen"
    /\ UNCHANGED <<Discovery, Selection, ID, trans, srv, handlers, panicking,
                   closeFailed, shutdownSignal, signalledAt, gossipEnabled,
                   localPeering, validatorVars, parserVars>>

\* Mutant: a listen error is logged and startup goes on.
ListenIgnoreError ==
    /\ pc = "Listening"
    /\ \E ok \in BOOLEAN :
        /\ calls' = calls \o <<"net.ListenUDP">>
                    \o (IF ok THEN <<>> ELSE <<"log.Errorf">>)
        /\ conn' = "open"
        /\ deferred' = Append(deferred, "conn.Close")
        /\ pc' = "Wrapping"
        /\ failure' = IF ok THEN failure ELSE "listen"
    /\ UNCHANGED <<Discovery, Selection, ID, trans, srv, handlers, panicking,
                   closeFailed, shutdownSignal, signalledAt, gossipEnabled, localPeering,
                   validatorVars, parserVars>>

\* autopeering.go:94-98: a listen error is fatal.
Listen ==
    /\ pc = "Listening"
    /\ \E ok \in BOOLEAN :
        /\ calls' = calls \o <<"net.ListenUDP">>
                    \o (IF ok THEN <<>> ELSE <<"log.Fatalf">>)
        /\ conn' = IF ok THEN "open" ELSE conn
        /\ deferred' = IF ok THEN Append(deferred, "conn.Close") ELSE deferred
        /\ pc' = IF ok THEN "Wrapping" ELSE "Exited"
        /\ failure' = IF ok THEN failure ELSE "listen"
    /\ UNCHANGED <<Discovery, Selection, ID, trans, srv, handlers, panicking,
                   closeFailed, shutdownSignal, signalledAt, gossipEnabled, localPeering,
                   validatorVars, parserVars>>

\* autopeering.go:100-102.
WrapTransport ==
    /\ pc = "Wrapping"
    /\ trans' = "open"
    /\ calls' = Append(calls, "transport.Conn")
    /\ deferred' = Append(deferred, "trans.Close")
    /\ pc' = "Serving"
    /\ UNCHANGED <<failure, Discovery, Selection, ID, conn, srv, handlers, panicking,
                   closeFailed, shutdownSignal, signalledAt, gossipEnabled, localPeering,
                   validatorVars, parserVars>>

\* autopeering.go:104-111.
Serve ==
    /\ pc = "Serving"
    /\ handlers' = <<"Discovery">>
                   \o (IF Selection.state # "nil" THEN <<"Selection">> ELSE <<>>)
    /\ srv' = "open"
    /\ calls' = Append(calls, "server.Serve")
    /\ deferred' = Append(deferred, "srv.Close")
    /\ pc' = "StartingDiscovery"
    /\ UNCHANGED <<failure, Discovery, Selection, ID, conn, trans, panicking,
                   closeFailed, shutdownSignal, signalledAt, gossipEnabled, localPeering,
                   validatorVars, parserVars>>

\* autopeering.go:113-115.
StartDiscovery ==
    /\ pc = "StartingDiscovery"
    /\ Discovery' = [Discovery EXCEPT !.state = "started"]
    /\ calls' = Append(calls, "Discovery.Start")
    /\ deferred' = Append(deferred, "Discovery.Close")
    /\ pc' = "StartingSelection"
    /\ UNCHANGED <<failure, Selection, ID, conn, trans, srv, handlers, panicking,
                   closeFailed, shutdownSignal, signalledAt, gossipEnabled, localPeering,
                   validatorVars, parserVars>>

\* Mutant: the selection branch starts (and defers closing) discovery again.
StartSelectionStartsDiscovery ==
    /\ pc = "StartingSelection"
    /\ IF Selection.state # "nil"
       THEN /\ Selection' = Selection
            /\ calls' = Append(calls, "Discovery.Start")
            /\ deferred' = Append(deferred, "Discovery.Close")
       ELSE UNCHANGED <<Selection, calls, deferred>>
    /\ pc' = "Recording"
    /\ UNCHANGED <<failure, Discovery, ID, conn, trans, srv, handlers,
                   panicking, closeFailed, shutdownSignal, signalledAt, gossipEnabled,
                   localPeering, validatorVars, parserVars>>

\* autopeering.go:117-121.
StartSelection ==
    /\ pc = "StartingSelection"
    /\ IF Selection.state # "nil"
       THEN /\ Selection' = [Selection EXCEPT !.state = "started"]
            /\ calls' = Append(calls, "Selection.Start")
            /\ deferred' = Append(deferred, "Selection.Close")
       ELSE UNCHANGED <<Selection, calls, deferred>>
    /\ pc' = "Recording"
    /\ UNCHANGED <<failure, Discovery, ID, conn, trans, srv, handlers, panicking,
                   closeFailed, shutdownSignal, signalledAt, gossipEnabled, localPeering,
                   validatorVars, parserVars>>

\* autopeering.go:123-126; the goroutine then blocks on the channel.
RecordID ==
    /\ pc = "Recording"
    /\ ID' = LocalID
    /\ pc' = "Running"
    /\ UNCHANGED <<failure, Discovery, Selection, conn, trans, srv, handlers, deferred,
                   panicking, calls, closeFailed, shutdownSignal, signalledAt,
                   gossipEnabled, localPeering, validatorVars, parserVars>>

\* Mutant: start() does not wait for the signal.
ReceiveShutdownNoWait ==
    /\ pc = "Running"
    /\ pc' = "ShuttingDown"
    /\ UNCHANGED <<failure, Discovery, Selection, ID, conn, trans, srv,
                   handlers, deferred, panicking, calls, closeFailed,
                   shutdownSignal, signalledAt, gossipEnabled, localPeering, validatorVars,
                   parserVars>>

\* Mutant: on the signal the process exits, skipping the deferred calls.
ReceiveShutdownExits ==
    /\ pc = "Running"
    /\ shutdownSignal
    /\ pc' = "Exited"
    /\ UNCHANGED <<failure, Discovery, Selection, ID, conn, trans, srv,
                   handlers, deferred, panicking, calls, closeFailed,
                   shutdownSignal, signalledAt, gossipEnabled, localPeering, validatorVars,
                   parserVars>>

\* autopeering.go:128-130: the receive completes once the channel is
\* readable, and start() returns into its deferred calls.
ReceiveShutdown ==
    /\ pc = "Running"
    /\ shutdownSignal
    /\ pc' = "ShuttingDown"
    /\ UNCHANGED <<failure, Discovery, Selection, ID, conn, trans, srv, handlers,
                   deferred, panicking, calls, closeFailed, shutdownSignal, signalledAt,
                   gossipEnabled, localPeering, validatorVars, parserVars>>

\* What closing does to the handle a deferred call names.
Closed(d, name, handle) == IF d = name THEN "closed" ELSE handle

\* The deferred call d runs; `left` is the stack after it, and leftOnFailure
\* the stack after it when it fails.
RunCall(d, left, leftOnFailure) ==
    /\ calls' = Append(calls, d)
    /\ conn' = Closed(d, "conn.Close", conn)
    /\ trans' = Closed(d, "trans.Close", trans)
    /\ srv' = Closed(d, "srv.Close", srv)
    /\ Discovery' = [Discovery EXCEPT !.state = Closed(d, "Discovery.Close", @)]
    /\ Selection' = [Selection EXCEPT !.state = Closed(d, "Selection.Close", @)]
    /\ IF d = "log.Info"
       THEN /\ deferred' = left
            /\ UNCHANGED <<closeFailed, panicking>>
       ELSE \E outcome \in CloseOutcomes :
             /\ deferred' = IF outcome = "ok" THEN left ELSE leftOnFailure
             /\ closeFailed' = IF outcome = "ok" THEN closeFailed
                               ELSE closeFailed \cup {d}
             /\ panicking' = IF outcome = "panic" THEN d ELSE panicking
    /\ UNCHANGED <<failure, pc, ID, handlers, shutdownSignal, signalledAt, gossipEnabled,
                   localPeering, validatorVars, parserVars>>

\* Mutant: the deferred calls run in the order they were deferred.
RunDeferredFIFO ==
    /\ pc \in {"ShuttingDown", "Unwinding"}
    /\ deferred # <<>>
    /\ RunCall(Head(deferred), Tail(deferred), Tail(deferred))

\* Mutant: a failing Close ends the teardown; only the final log line runs.
RunDeferredAbortOnFailure ==
    /\ pc \in {"ShuttingDown", "Unwinding"}
    /\ deferred # <<>>
    /\ RunCall(deferred[Len(deferred)], SubSeq(deferred, 1, Len(deferred) - 1),
               SubSeq(deferred, 1, 1))

\* The deferred call on top of the stack runs (last in, first out).  It
\* runs whether start() returned or panics, and whatever the deferred calls
\* before it did: a panic in one replaces the current panic and the
\* unwinding goes on.
RunDeferred ==
    /\ pc \in {"ShuttingDown", "Unwinding"}
    /\ deferred # <<>>
    /\ RunCall(deferred[Len(deferred)], SubSeq(deferred, 1, Len(deferred) - 1),
               SubSeq(deferred, 1, Len(deferred) - 1))

\* No deferred call is left: start() is over, by return or by panic.
Exit ==
    /\ pc \in {"ShuttingDown", "Unwinding"}
    /\ deferred = <<>>
    /\ pc' = IF pc = "Unwinding" THEN "Panicked" ELSE "Stopped"
    /\ UNCHANGED <<failure, Discovery, Selection, ID, conn, trans, srv, handlers,
                   deferred, panicking, calls, closeFailed, shutdownSignal, signalledAt,
                   gossipEnabled, localPeering, validatorVars, parserVars>>

\* The daemon closes the shutdown channel, at any time.
Shutdown ==
    /\ ~shutdownSignal
    /\ shutdownSignal' = TRUE
    /\ signalledAt' = pc
    /\ UNCHANGED <<failure, pc, Discovery, Selection, ID, conn, trans, srv, handlers,
                   deferred, panicking, calls, closeFailed, gossipEnabled,
                   localPeering, validatorVars, parserVars>>

\* The steps of the goroutine running start().
StartStep ==
    \/ Resolve \/ SelfTest \/ Listen \/ WrapTransport \/ Serve
    \/ StartDiscovery \/ StartSelection \/ RecordID \/ ReceiveShutdown
    \/ RunDeferred \/ Exit

Next == configureAP \/ StartCall \/ StartStep \/ Shutdown

Spec == Init /\ [][Next]_vars

\* A running goroutine keeps being scheduled: each step of start() that
\* stays enabled is eventually taken.
FairSpec == Spec /\ WF_vars(StartStep)

\* ================================================================ claims
\* The Close calls made so far, in order.
IsClose(c) == c \in {"Selection.Close", "Discovery.Close", "srv.Close",
                     "trans.Close", "conn.Close"}
CloseCalls == SelectSeq(calls, IsClose)
Called(c) == \E k \in 1..Len(calls) : calls[k] = c
TimesCalled(c) == Cardinality({k \in 1..Len(calls) : calls[k] = c})
IsPrefix(a, b) == Len(a) <= Len(b) /\ SubSeq(b, 1, Len(a)) = a

\* The teardown order of a session, given whether selection was started.
TeardownOrder ==
    (IF Called("Selection.Start") THEN <<"Selection.Close">> ELSE <<>>)
    \o <<"Discovery.Close", "srv.Close", "trans.Close", "conn.Close">>

\* C1: in a run that reached Running and received the shutdown signal, the
\* Close calls made so far are always an initial part of the order
\* selection (if started), discovery, server, transport, socket, and once
\* start() is over they are exactly that order.
C1_TeardownOrder ==
    /\ pc \in {"ShuttingDown", "Stopped"} => IsPrefix(CloseCalls, TeardownOrder)
    /\ pc = "Stopped" => CloseCalls = TeardownOrder

C1_Witness ==
    /\ pc = "Stopped"
    /\ CloseCalls = <<"Selection.Close", "Discovery.Close", "srv.Close",
                      "trans.Close", "conn.Close">>

\* Every handle start() acquired has had its Close called.
AllAcquiredClosed ==
    /\ conn # "open" /\ (conn = "closed" <=> Called("conn.Close"))
    /\ trans # "open" /\ (trans = "closed" <=> Called("trans.Close"))
    /\ srv # "open" /\ (srv = "closed" <=> Called("srv.Close"))
    /\ Discovery.state # "started"
    /\ Called("Discovery.Start") => Called("Discovery.Close")
    /\ Selection.state # "started"
    /\ Called("Selection.Start") => Called("Selection.Close")

\* C2: when the teardown is over every acquired handle has had its Close
\* called, whichever of the Close calls failed.
C2_EveryCloseRuns ==
    pc = "Stopped" =>
        /\ AllAcquiredClosed
        /\ conn = "closed" /\ trans = "closed" /\ srv = "closed"
        /\ Discovery.state = "closed"

C2_Witness ==
    /\ pc = "Stopped"
    /\ "Selection.Close" \in closeFailed
    /\ "Discovery.Close" \in closeFailed
    /\ panicking = "Discovery.Close"
    /\ conn = "closed" /\ trans = "closed" /\ srv = "closed"

\* C3: without the gossip capability selection is neither registered as a
\* handler nor started.
C3_SelectionOnlyWithGossip ==
    ~gossipEnabled =>
        /\ ~Called("Selection.Start")
        /\ \A k \in 1..Len(handlers) : handlers[k] # "Selection"

\* C4: after a failed resolve, self-test or listen the session is never
\* Running: start() is unwinding or over, no server and no protocol was
\* started, the ID is unset, and no startup call was made twice.
C4_FailedStartup ==
    failure \in {"resolve", "self-test", "listen"} =>
        /\ pc \in {"Unwinding", "Panicked", "Exited"}
        /\ srv = "none" /\ ~Called("server.Serve")
        /\ ~Called("Discovery.Start") /\ ~Called("Selection.Start")
        /\ Discovery.state = "new" /\ Selection.state = "new"
        /\ ID = <<>>
        /\ TimesCalled("net.ResolveUDPAddr") <= 1
        /\ TimesCalled("netutil.CheckUDP") <= 1
        /\ TimesCalled("net.ListenUDP") <= 1

C4_Witness ==
    /\ failure = "listen"
    /\ pc = "Exited"
    /\ Called("net.ListenUDP")
    /\ conn = "none"

\* C5: in Running nothing has been closed, and while the shutdown signal
\* has not been delivered a step leaves the session in Running and makes
\* no call.
C5_OnlyShutdownLeavesRunning ==
    /\ [](pc = "Running" =>
            /\ CloseCalls = <<>>
            /\ conn = "open" /\ trans = "open" /\ srv = "open"
            /\ Discovery.state = "started")
    /\ [][(pc = "Running" /\ ~shutdownSignal) =>
            (pc' = "Running" /\ calls' = calls /\ deferred' = deferred)]_vars

C5_Witness ==
    /\ pc = "Running"
    /\ ~shutdownSignal
    /\ ID = LocalID

\* C6: a shutdown signal delivered in Running leads to start() being over
\* with every acquired handle closed.
C6_ShutdownCompletes ==
    (pc = "Running" /\ shutdownSignal)
        ~> (pc = "Stopped" /\ AllAcquiredClosed /\ conn = "closed"
            /\ Discovery.state = "closed" /\ deferred = <<>>)

C6_Witness ==
    /\ pc = "Stopped"
    /\ shutdownSignal
    /\ AllAcquiredClosed
    /\ Selection.state = "closed"
    /\ closeFailed = {}

\* C7: for gossip and peering endpoints joined from a host and a port, the
\* validator returns true exactly when the two hosts are equal, whatever
\* the ports.
C7_SameHostIff ==
    \A h1 \in Hosts, h2 \in Hosts, p1 \in Ports, p2 \in Ports :
        (/\ valid.called
         /\ candidate.services.gossip = Registered(JoinHostPort(h1, p1))
         /\ candidate.services.peering = Registered(JoinHostPort(h2, p2)))
        => valid = Return(h1 = h2)

C7_Witness ==
    /\ valid = Return(TRUE)
    /\ candidate.services.gossip = Registered(<<"a", ":", "1">>)
    /\ candidate.services.peering = Registered(<<"a", ":", "2">>)

\* C8: a candidate without a registered gossip service is rejected,
\* whatever else it has registered.
C8_NoGossipRejected ==
    (valid.called /\ ~candidate.services.gossip.registered)
        => valid = Return(FALSE)

C8_Witness ==
    /\ valid = Return(FALSE)
    /\ candidate.services.gossip = Absent
    /\ candidate.services.peering = Registered(<<"a", ":", "1">>)

\* The positions of the definitions that are not empty and do not parse.
BadPositions ==
    {k \in 1..Len(entryNodes) :
        /\ entryNodes[k] # <<>>
        /\ ParseEntry(entryNodes[k], preferIPv6).err # NoErr}
FirstBad == CHOOSE k \in BadPositions : \A j \in BadPositions : k <= j

\* C9: when some definition is not empty and does not parse, the loop never
\* goes past the first such definition, and the call returns that
\* definition's error and no peers.
C9_FailFast ==
    (parsePc \in {"loop", "done"} /\ BadPositions # {}) =>
        /\ idx <= FirstBad
        /\ parsePc = "done" =>
            /\ idx = FirstBad
            /\ err = ParseEntry(entryNodes[FirstBad], preferIPv6).err
            /\ err # NoErr
            /\ result = <<>>

C9_Witness ==
    /\ parsePc = "done"
    /\ entryNodes = <<DefGoodH, DefBadKey, DefNoAt>>
    /\ err.text = "can't decode public key"
    /\ result = <<>>

\* C10: the call returns what it returns for the list without its empty
\* strings: the same error and the same peers in the same order.
NotEmpty(d) == d # <<>>
C10_EmptySkipped ==
    parsePc = "done" =>
        LET r == parseEntryNodes(SelectSeq(entryNodes, NotEmpty), preferIPv6)
        IN  result = r.result /\ err = r.err

C10_Witness ==
    /\ parsePc = "done"
    /\ entryNodes = <<DefEmpty, DefGoodH, DefEmpty>>
    /\ err = NoErr
    /\ Len(result) = 1

\* The well formed, resolvable definitions with what they denote: the bytes
\* of the public key ("QQ==" is the byte 65, "QUI=" the bytes 65, 66) and
\* the port.
WellFormed ==
    {[def |-> DefGoodH, key |-> <<65>>, port |-> 15],
     [def |-> DefGoodG, key |-> <<65, 66>>, port |-> 2]}
Denoted(d) == CHOOSE w \in WellFormed : w.def = d
IsWellFormed(d) == \E w \in WellFormed : w.def = d

\* C11: for a list of well formed, resolvable definitions (and empty
\* strings) the call succeeds with one peer per non-empty definition, in
\* input order; each peer has the decoded public key and only a "peering"
\* service, whose address splits into a host and the definition's port.
C11_WellFormedParsed ==
    (parsePc = "done"
     /\ \A k \in 1..Len(entryNodes) :
            entryNodes[k] = <<>> \/ IsWellFormed(entryNodes[k]))
    => LET given == SelectSeq(entryNodes, NotEmpty)
       IN  /\ err = NoErr
           /\ Len(result) = Len(given)
           /\ \A k \in 1..Len(given) :
                LET peering == result[k].services.peering
                IN  /\ result[k].publicKey = Denoted(given[k]).key
                    /\ ~result[k].services.gossip.registered
                    /\ peering.registered
                    /\ SplitHostPort(peering.addr).ok
                    /\ SplitHostPort(peering.addr).host # <<>>
                    /\ Atoi(SplitHostPort(peering.addr).port)
                          = Denoted(given[k]).port

C11_Witness ==
    /\ parsePc = "done"
    /\ entryNodes = <<DefGoodH, DefEmpty, DefGoodG>>
    /\ Len(result) = 2
    /\ result[1].publicKey = <<65>>
    /\ result[2].services.peering = Registered(<<"3", ".", "4", ":", "2">>)

\* The number of '@' in a definition.
AtCount(d) == Cardinality({k \in 1..Len(d) : d[k] = "@"})
WrongAtCount(d) == d # <<>> /\ AtCount(d) # 1
\* The error of autopeering.go:140 for a definition.
FormatError(d) ==
    [is |-> ErrParsingEntryNode, text |-> "entry node parts must be 2, is",
     arg |-> Itoa(AtCount(d) + 1)]

\* C12: a call on a list holding a non-empty definition with no '@' or
\* several fails, and when the definition the call stopped at is such a
\* definition the error is the part-count error, whatever its segments are.
C12_WrongAtCountFails ==
    parsePc = "done" =>
        /\ (\E k \in 1..Len(entryNodes) : WrongAtCount(entryNodes[k]))
              => err # NoErr /\ result = <<>>
        /\ (idx <= Len(entryNodes) /\ WrongAtCount(entryNodes[idx]))
              => err = FormatError(entryNodes[idx])

C12_Witness ==
    /\ parsePc = "done"
    /\ entryNodes = <<DefGoodH, DefTwoAt>>
    /\ idx = 2
    /\ ~DecodeString(<<"Q">>).ok
    /\ err = [is |-> ErrParsingEntryNode,
              text |-> "entry node parts must be 2, is", arg |-> <<"3">>]

\* C13: once configureAP has run on a configuration that does not parse,
\* the error was logged, both protocols are constructed, and discovery was
\* given no master peer, at that moment and ever after.
C13_ErrorMeansNoMasterPeers ==
    (parsePc = "done" /\ BadPositions # {}) =>
        /\ err # NoErr
        /\ Called("log.Errorf")
        /\ Called("discover.New") /\ Called("selection.New")
        /\ Discovery.state # "nil" /\ Selection.state # "nil"
        /\ Discovery.masterPeers = <<>>

C13_Witness ==
    /\ entryNodes = <<DefGoodH, DefBadKey>>
    /\ pc = "Running"
    /\ Called("log.Errorf")
    /\ Discovery.state = "started"
    /\ Discovery.masterPeers = <<>>

\* C14: a candidate with a registered gossip endpoint whose gossip or
\* peering endpoint does not split into host and port, or that has no
\* peering endpoint at all, is rejected by a returned false.
C14_UnusableEndpointRejected ==
    (/\ valid.called
     /\ candidate.services.gossip.registered
     /\ \/ ~SplitHostPort(candidate.services.gossip.addr).ok
        \/ ~candidate.services.peering.registered
        \/ ~SplitHostPort(candidate.services.peering.addr).ok)
    => valid = Return(FALSE)

\* C15: while the discovery or the selection protocol is started and not
\* closed, the server, the transport and the socket are open.
C15_ProtocolsWithinTransport ==
    (Discovery.state = "started" \/ Selection.state = "started")
        => (srv = "open" /\ trans = "open" /\ conn = "open")

C15_Witness ==
    /\ pc = "ShuttingDown"
    /\ Selection.state = "closed"
    /\ Discovery.state = "started"
    /\ srv = "open" /\ trans = "open" /\ conn = "open"

\* The position of the first call of c in the history.
Pos(c) == CHOOSE k \in 1..Len(calls) :
              calls[k] = c /\ \A j \in 1..(k - 1) : calls[j] # c
CalledBefore(a, b) == Called(a) /\ Called(b) /\ Pos(a) < Pos(b)

\* C16: no Start or Close of a protocol is called twice; Discovery.Start
\* comes after the socket is opened and the server started, Selection.Start
\* after Discovery.Start, and each Close after its own Start.
C16_HooksOnceInOrder ==
    /\ \A c \in {"Discovery.Start", "Selection.Start", "Discovery.Close",
                 "Selection.Close"} : TimesCalled(c) <= 1
    /\ Called("Discovery.Start") =>
          /\ CalledBefore("net.ListenUDP", "Discovery.Start")
          /\ CalledBefore("server.Serve", "Discovery.Start")
    /\ Called("Selection.Start") =>
          CalledBefore("Discovery.Start", "Selection.Start")
    /\ Called("Discovery.Close") =>
          CalledBefore("Discovery.Start", "Discovery.Close")
    /\ Called("Selection.Close") =>
          CalledBefore("Selection.Start", "Selection.Close")

C16_Witness ==
    /\ pc = "Stopped"
    /\ TimesCalled("Discovery.Start") = 1 /\ TimesCalled("Selection.Start") = 1
    /\ TimesCalled("Discovery.Close") = 1 /\ TimesCalled("Selection.Close") = 1

\* The positions of start() before Running, each with the positions a step
\* may lead to from it.
StartupSuccessors ==
    [Idle |-> {"Resolving"},
     Resolving |-> {"SelfTesting", "Unwinding", "Exited"},
     SelfTesting |-> {"Listening", "Unwinding"},
     Listening |-> {"Wrapping", "Exited"},
     Wrapping |-> {"Serving"},
     Serving |-> {"StartingDiscovery"},
     StartingDiscovery |-> {"StartingSelection"},
     StartingSelection |-> {"Recording"},
     Recording |-> {"Running"}]
BeforeRunning == DOMAIN StartupSuccessors
\* Every startup step was made.
StartupComplete ==
    /\ Called("net.ResolveUDPAddr") /\ Called("netutil.CheckUDP")
    /\ Called("net.ListenUDP") /\ Called("transport.Conn")
    /\ Called("server.Serve") /\ Called("Discovery.Start")
    /\ Selection.state # "nil" => Called("Selection.Start")
    /\ ID = LocalID

\* C17: a signal delivered before Running changes no startup step: each
\* step leads where it leads without the signal, the teardown is entered
\* from Running only and after the whole startup, and a start() that was
\* signalled before Running still runs to its end.
C17_NoMidStartupCancellation ==
    /\ [](pc \in {"ShuttingDown", "Stopped"} => StartupComplete)
    /\ [][(pc' = "ShuttingDown" /\ pc # "ShuttingDown") => pc = "Running"]_vars
    /\ [][(shutdownSignal /\ pc \in BeforeRunning /\ pc' # pc)
            => pc' \in StartupSuccessors[pc]]_vars
    /\ [][(pc \in BeforeRunning \ {"Idle"}) =>
            (calls' = calls \/ ~IsClose(calls'[Len(calls')]))]_vars
    /\ (signalledAt \in BeforeRunning /\ pc = "Resolving")
          ~> (pc \in {"Stopped", "Exited", "Panicked"})

C17_Witness ==
    /\ signalledAt = "Idle"
    /\ pc = "Stopped"
    /\ StartupComplete
    /\ Len(CloseCalls) = 5

\* C18: the ID is unset before Running and set from Running on; when set it
\* is the local identity's ID and the protocols have been started; once set
\* it never changes.
C18_IDFromRunningOn ==
    /\ [](pc \in BeforeRunning => ID = <<>>)
    /\ [](pc \in {"Running", "ShuttingDown", "Stopped"} => ID = LocalID)
    /\ [](ID # <<>> =>
            /\ ID = LocalID
            /\ Called("Discovery.Start")
            /\ Selection.state # "nil" => Called("Selection.Start"))
    /\ [][ID # <<>> => ID' = ID]_vars

C18_Witness ==
    /\ pc = "Stopped"
    /\ ID = LocalID
    /\ Selection.state = "closed"

\* A definition with exactly one '@' whose key segment is not base64.
BadKeyOnly(d) == AtCount(d) = 1 /\ ~DecodeString(Split(d, "@")[1]).ok

\* C19 as claimed: the error for such a definition wraps the decode error
\* and is of another kind than the part-count error.
C19_DecodeErrorWrapped ==
    (parsePc = "done" /\ idx <= Len(entryNodes) /\ BadKeyOnly(entryNodes[idx]))
        => /\ err.is = CorruptInputError
           /\ err.is # FormatError(entryNodes[idx]).is

\* C19 as amended: the call fails with an error that wraps
\* ErrParsingEntryNode, the error the part-count error wraps too; it says
\* "can't decode public key", which the part-count error does not.
C19_SameKindOtherText ==
    (parsePc = "done" /\ idx <= Len(entryNodes) /\ BadKeyOnly(entryNodes[idx]))
        => /\ err # NoErr /\ result = <<>>
           /\ err.is = ErrParsingEntryNode
           /\ err.is = FormatError(entryNodes[idx]).is
           /\ err.text = "can't decode public key"
           /\ err.text # FormatError(entryNodes[idx]).text

C19_Witness ==
    /\ parsePc = "done"
    /\ entryNodes = <<DefBadKey>>
    /\ err.is = ErrParsingEntryNode
    /\ err.text = "can't decode public key"

====
